---- MODULE Spec2Model ----
(***************************************************************************)
(* FedDES: the FedCompass server, scheduler, client and deadline actors of *)
(* simulation/algorithm/FedCompass.cpp as a state machine.                 *)
(*                                                                         *)
(* Actors are cooperative: an action of this module is the code an actor   *)
(* runs between two suspension points (execute, sleep_for, put, get).      *)
(* Virtual time is the integer `now` (TimeScale units per second, measured *)
(* from SchedulerCompass::start_time).  A sleep_for ends exactly at its    *)
(* wake-up time; an execute of k * host_speed flops on the server's host   *)
(* lasts k seconds (rounded up to the clock's resolution), and of two such *)
(* executes the one that started no later with no more work ends no later. *)
(* Trainings and transfers are the platform's: a client's reply may arrive *)
(* at any instant of the clock.  Doubles are held in fixed point (times    *)
(* and seconds-per-step in 1/TimeScale s, truncated).  The trainings of    *)
(* the clients that main places on the server's host are not counted in    *)
(* the sharing of that host.                                               *)
(*                                                                         *)
(* Spec runs NumClients clients for every epochs value up to NumEpochs,    *)
(* with open training durations (control # 0) and the actor start order of *)
(* SimGrid.  SpecAnyOrder leaves that order open.  SpecFixed runs          *)
(* FixedClients clients for FixedEpochs epochs with a fixed duration per   *)
(* local step (control = 0).  SpecAvg is FedAvg.cpp; SpecFx and SpecMain   *)
(* are the straggler parse and the start of main.                          *)
(***************************************************************************)
EXTENDS Integers, Sequences, FiniteSets, TLC

\* ---------------------------------------------------------------- bounds
NumClients == 2        \* num_clients (N)
NumEpochs == 4         \* num_global_epochs (E)
MaxLocalSteps == 2     \* max_local_steps (M)
MaxTime == 1           \* horizon of the clock, in seconds
TimeScale == 20        \* clock units per second
MaxRules == 3          \* longest list of straggler rules
IntBits == 3           \* width of int (32 in the build)
MantBits == 3          \* width of a double's mantissa (53 in the build)
FixedClients == 3      \* num_clients of the runs with control = 0
FixedEpochs == 6       \* epochs of the runs with control = 0
MinUnit == 3           \* shortest local step of a client, in clock units
MaxUnit == 5           \* longest local step of a client, in clock units

\* ------------------------------------------------------ program constants
SPEED_MOMENTUM == 9                      \* 0.9, in tenths
QRatio == <<1, 5>>                       \* q_ratio = 0.2
LambdaVal == <<3, 2>>                    \* lambda_val = 1.5 (LATEST_TIME_FACTOR)
validation_flag == FALSE

SRV == -1                                \* the server actor; deadline actors are 0, 1, ...
Horizon == MaxTime * TimeScale

Min(a, b) == IF a <= b THEN a ELSE b
Max(a, b) == IF a >= b THEN a ELSE b

\* static_cast<int>(a / b) for b > 0: truncation toward zero
TruncDiv(a, b) == IF a >= 0 THEN a \div b ELSE -((-a) \div b)

\* SchedulerCompass constructor
min_local_steps == Max((QRatio[1] * MaxLocalSteps) \div QRatio[2], 1)
max_local_steps_bound == (12 * MaxLocalSteps) \div 10

\* flops of each execute on the server's host, in 1/1000 of host_speed
Work(pc) ==
  CASE pc = "recv_exec"  -> 150
    [] pc = "drain_exec" -> 150
    [] pc = "val_exec"   -> 100
    [] pc = "send_exec"  -> 47
    [] pc = "upd_exec"   -> 30
    [] pc = "sent_exec"  -> 30
    [] pc = "sbuf_exec"  -> 10
    [] pc = "buf_exec"   -> 10
    [] pc = "ug_exec"    -> 10
    [] pc = "ua_exec"    -> 0
    [] OTHER             -> 0

\* the duration of an execute on the server's host, in clock units, rounded
\* up: an execute of some work suspends its actor for some time
Cost(pc) == (Work(pc) * TimeScale + 999) \div 1000

VARIABLES
  now,                 \* Engine::get_clock() - start_time
  cl,                  \* client actors: [pc, steps, unit, t]
  mbox,                \* mailboxes[c]: puts waiting for client c's get, in order
  inbox,               \* mailboxes[num_clients]: clients blocked in their reply put
  act,                 \* server-side actors (server, deadline actors): [pc, c, g, q, t]
  hostq,               \* server-side actors inside an execute, in start order
  pending_clients,
  iter,
  group_counter,
  client_info,
  group_of_arrival,
  global_step,         \* ServerFedCompass::global_step
  general_buffer_size,
  group_pseudo_grad,
  loop_step,           \* the local global_step of server()
  fault,               \* "none", or the undefined behaviour the run has hit
  ginfo,               \* history: per created group, its creation and aggregation
  sent_steps,          \* history: the local_steps values _send_model has put
  tally,               \* history: messages and assignments counted so far
  avg,                 \* the FedAvg program: its server, its clients, its tallies
  fx,                  \* main()'s straggler configuration and its parse
  num_epochs,          \* "epochs" of the configuration (E), fixed during a run
  kernel_order         \* which of a new actor and its creator runs first

vars == <<now, cl, mbox, inbox, act, hostq, pending_clients, iter, group_counter,
          client_info, group_of_arrival, global_step, general_buffer_size,
          group_pseudo_grad, loop_step, fault, ginfo, sent_steps, tally,
          avg, fx, num_epochs, kernel_order>>

\* the client actors of the run, 0 .. num_clients - 1 (main, lines 760-779)
Clients == DOMAIN cl
num_clients == Cardinality(Clients)

\* ClientInfo::ClientInfo; alloc = FALSE is the nullptr of the constructor
NullInfo == [alloc |-> FALSE, step |-> -1, local_steps |-> -1, goa |-> -1,
             total_steps |-> -1, speed |-> -1, start_time |-> 0]

\* client(), lines 653-686: a client before its first get.  unit is the
\* duration of one local step on its host (per_step_training_cost, line 701)
\* in clock units when the run has control = 0, and 0 when control # 0 and
\* dist(gen) of line 703 leaves the durations open; t is the end of the
\* training execute in progress
Boot(u) == [pc |-> "boot", steps |-> -1, unit |-> u, t |-> 0]

\* client(), lines 701-704: the training execute of `steps` local steps begins
training(c, steps, start) ==
  [c EXCEPT !.pc = "train", !.steps = steps,
            !.t = IF c.unit = 0 THEN 0 ELSE start + c.unit * steps]

\* GOA::GOA
NewGOA == [clients |-> <<>>, arrived_clients |-> <<>>,
           expected_arrival_time |-> 0, latest_arrival_time |-> 0]

Idle(pc) == [pc |-> pc, c |-> -1, g |-> -1, q |-> <<>>, t |-> 0]

\* The shared state as one record, so that the code between two suspension
\* points is a composition of functions on it.
Cur == [cl |-> cl, mbox |-> mbox, inbox |-> inbox, act |-> act, hostq |-> hostq,
        pending_clients |-> pending_clients, iter |-> iter,
        group_counter |-> group_counter, client_info |-> client_info,
        group_of_arrival |-> group_of_arrival, global_step |-> global_step,
        general_buffer_size |-> general_buffer_size,
        group_pseudo_grad |-> group_pseudo_grad, loop_step |-> loop_step,
        fault |-> fault, ginfo |-> ginfo, sent_steps |-> sent_steps,
        tally |-> tally]

Commit(st) ==
  /\ cl' = st.cl
  /\ mbox' = st.mbox
  /\ inbox' = st.inbox
  /\ act' = st.act
  /\ hostq' = st.hostq
  /\ pending_clients' = st.pending_clients
  /\ iter' = st.iter
  /\ group_counter' = st.group_counter
  /\ client_info' = st.client_info
  /\ group_of_arrival' = st.group_of_arrival
  /\ global_step' = st.global_step
  /\ general_buffer_size' = st.general_buffer_size
  /\ group_pseudo_grad' = st.group_pseudo_grad
  /\ loop_step' = st.loop_step
  /\ fault' = st.fault
  /\ ginfo' = st.ginfo
  /\ sent_steps' = st.sent_steps
  /\ tally' = st.tally
  /\ UNCHANGED <<avg, fx, num_epochs>>
  /\ kernel_order' \in IF kernel_order = "simgrid" THEN {"simgrid"}
                       ELSE {"actor", "creator"}

\* ------------------------------------------------------------- sequences
SeqSet(s) == {s[i] : i \in 1 .. Len(s)}
InSeq(x, s) == \E i \in 1 .. Len(s) : s[i] = x
RemoveAll(s, x) == SelectSeq(s, LAMBDA y : y # x)

\* a map without one key (std::map::erase)
Erase(f, k) == [x \in DOMAIN f \ {k} |-> f[x]]

\* the keys of a std::map in iteration order
RECURSIVE KeysAsc(_)
KeysAsc(S) ==
  IF S = {} THEN <<>>
  ELSE LET m == CHOOSE x \in S : \A y \in S : x <= y
       IN <<m>> \o KeysAsc(S \ {m})

\* ------------------------------------------------------------- scheduler

\* mutant of smooth: the two weights exchanged
smooth_swapped(speed, local_speed) ==
  (SPEED_MOMENTUM * speed + (10 - SPEED_MOMENTUM) * local_speed) \div 10

\* the exponential smoothing of _record_info
smooth(speed, local_speed) ==
  ((10 - SPEED_MOMENTUM) * speed + SPEED_MOMENTUM * local_speed) \div 10

\* history: _record_info processes a return of client c; the sample is the
\* time since the client's start_time over its local_steps (lines 292-296)
note_return(st, c) ==
  LET ci == st.client_info[c]
      since == IF ci.alloc THEN now - ci.start_time ELSE now
      steps == IF ci.alloc THEN ci.local_steps ELSE MaxLocalSteps
  IN [st EXCEPT !.tally.returns[c] = @ + 1,
                !.tally.sample[c] = since \div steps]

\* SchedulerCompass::_record_info
record_info(st, c) ==
  LET ci == st.client_info[c]
      local_start_time == IF ci.alloc THEN ci.start_time ELSE 0
      local_update_time == now - local_start_time
      local_steps == IF ci.alloc THEN ci.local_steps ELSE MaxLocalSteps
      local_speed == local_update_time \div local_steps
  IN IF ~ci.alloc
     THEN [st EXCEPT !.client_info[c] =
             [NullInfo EXCEPT !.alloc = TRUE, !.speed = local_speed, !.step = 0,
                              !.total_steps = min_local_steps]]
     ELSE [st EXCEPT !.client_info[c].speed = smooth(ci.speed, local_speed)]

\* the value of group_counter the lambda of a new deadline actor reads
\* (lines 392 and 481) when the actor starts.  The simulator's kernel runs a
\* new actor, up to its sleep_for, before its creator resumes ("simgrid"); with
\* that order left open the actor starts before ("actor") or after
\* ("creator") the group_counter++ of its creator (lines 399 and 488)
SpawnTarget(st) ==
  IF kernel_order = "creator" THEN st.group_counter + 1 ELSE st.group_counter

\* Actor::create of group_aggregation_lambda, then delayed_action up to its
\* sleep_for; group_of_arrival[group_counter] of a group that does not exist
\* inserts a null pointer, which the lambda dereferences
spawn_deadline(st, latest) ==
  LET g == SpawnTarget(st)
      s1 == [st EXCEPT !.act = @ @@ (st.group_counter :>
               [pc |-> "sleep", c |-> -1, g |-> g, q |-> <<>>, t |-> latest])]
  IN IF g = st.group_counter THEN s1 ELSE [s1 EXCEPT !.fault = "null_goa"]

\* history: a group is created
note_created(st, latest) ==
  [st EXCEPT !.ginfo = @ @@ (st.group_counter :>
       [created |-> now, deadline |-> latest, pass |-> -1, by |-> "none",
        waiting |-> 0, buffered |-> 0])]

\* mutant of join_skip: no upper bound on the assigned steps
join_skip_unbounded(local_steps, assigned_steps) ==
  \/ local_steps < min_local_steps
  \/ local_steps < assigned_steps

\* the skip test of the loop of _join_group
join_skip(local_steps, assigned_steps) ==
  \/ local_steps < min_local_steps
  \/ local_steps < assigned_steps
  \/ local_steps > max_local_steps_bound

\* the loop of _join_group: <<assigned_group, assigned_steps>>
RECURSIVE join_scan(_, _, _, _, _)
join_scan(goa, keys, speed, assigned_group, assigned_steps) ==
  IF keys = <<>> THEN <<assigned_group, assigned_steps>>
  ELSE LET g == Head(keys)
           remaining_time == goa[g].expected_arrival_time - now
           local_steps == TruncDiv(remaining_time, speed)
       IN IF join_skip(local_steps, assigned_steps)
          THEN join_scan(goa, Tail(keys), speed, assigned_group, assigned_steps)
          ELSE join_scan(goa, Tail(keys), speed, g, local_steps)

\* SchedulerCompass::_join_group: [ok, st]
join_group(st, c) ==
  LET r == join_scan(st.group_of_arrival, KeysAsc(DOMAIN st.group_of_arrival),
                     st.client_info[c].speed, -1, -1)
  IN IF r[1] # -1
     THEN [ok |-> TRUE,
           st |-> [st EXCEPT !.client_info[c].goa = r[1],
                             !.client_info[c].local_steps = r[2],
                             !.client_info[c].start_time = now,
                             !.group_of_arrival[r[1]].clients = Append(@, c)]]
     ELSE [ok |-> FALSE, st |-> st]

\* std::min over clients followed by arrived_clients; the model's infinity
\* for a group with neither is a speed no client reaches
fastest_of(st, g) ==
  LET members == SeqSet(st.group_of_arrival[g].clients)
                   \cup SeqSet(st.group_of_arrival[g].arrived_clients)
      speeds == {st.client_info[m].speed : m \in members}
  IN IF speeds = {} THEN 1000 * Horizon
     ELSE CHOOSE x \in speeds : \A y \in speeds : x <= y

\* the loop of _create_group: assigned_steps
RECURSIVE create_scan(_, _, _, _)
create_scan(st, keys, speed, assigned_steps) ==
  IF keys = <<>> THEN assigned_steps
  ELSE LET g == Head(keys)
           grp == st.group_of_arrival[g]
           est_arrival_time == grp.latest_arrival_time + fastest_of(st, g) * MaxLocalSteps
           whole_seconds == TruncDiv(est_arrival_time - now, TimeScale)
           local_steps == TruncDiv(whole_seconds * TimeScale, speed)
       IN IF now < grp.latest_arrival_time /\ local_steps <= MaxLocalSteps
          THEN create_scan(st, Tail(keys), speed, Max(assigned_steps, local_steps))
          ELSE create_scan(st, Tail(keys), speed, assigned_steps)

\* _create_group without its clamp to min_local_steps
clamp_steps_unclamped(assigned_steps) ==
  IF assigned_steps < 0 THEN MaxLocalSteps ELSE assigned_steps

\* the two clamps of _create_group
clamp_steps(assigned_steps) ==
  LET a == IF assigned_steps >= 0 /\ assigned_steps < min_local_steps
           THEN min_local_steps ELSE assigned_steps
  IN IF a < 0 THEN MaxLocalSteps ELSE a

\* latest_arrival_time of a group made by _create_group
create_latest(assigned_steps, speed) ==
  now + (assigned_steps * speed * LambdaVal[1]) \div LambdaVal[2]

\* SchedulerCompass::_create_group
create_group(st, c) ==
  LET speed == st.client_info[c].speed
      assigned_steps == clamp_steps(
          create_scan(st, KeysAsc(DOMAIN st.group_of_arrival), speed, -1))
      gc == st.group_counter
      latest == create_latest(assigned_steps, speed)
      grp == [NewGOA EXCEPT !.clients = <<c>>,
                            !.expected_arrival_time = now + assigned_steps * speed,
                            !.latest_arrival_time = latest]
      s1 == [st EXCEPT !.group_of_arrival = @ @@ (gc :> grp)]
      s2 == note_created(spawn_deadline(s1, latest), latest)
  IN [s2 EXCEPT !.client_info[c].goa = gc,
                !.client_info[c].local_steps = assigned_steps,
                !.client_info[c].start_time = now,
                !.group_counter = gc + 1]

\* expected_arrival_time and latest_arrival_time of the group made by the
\* empty-map branch of _assign_group
first_expected(speed) == now + MaxLocalSteps * speed
first_latest(speed) == now + (speed * LambdaVal[1]) \div LambdaVal[2]

\* history: a local_steps assignment is made; the callers of _assign_group
\* send the model only while iter < num_global_epochs
note_assigned(st) ==
  [st EXCEPT !.tally.assigned = @ + 1,
             !.tally.unsent = IF st.iter < num_epochs THEN @ ELSE @ + 1]

\* the three ways of _assign_group to place a client
place_in_group(st, c) ==
  IF DOMAIN st.group_of_arrival = {}
  THEN LET speed == st.client_info[c].speed
           gc == st.group_counter
           latest == first_latest(speed)
           grp == [NewGOA EXCEPT !.clients = <<c>>,
                                 !.expected_arrival_time = first_expected(speed),
                                 !.latest_arrival_time = latest]
           s1 == [st EXCEPT !.group_of_arrival = @ @@ (gc :> grp)]
           s2 == note_created(spawn_deadline(s1, latest), latest)
       IN [s2 EXCEPT !.client_info[c].goa = gc,
                     !.client_info[c].local_steps = MaxLocalSteps,
                     !.client_info[c].start_time = now,
                     !.group_counter = gc + 1]
  ELSE LET j == join_group(st, c)
       IN IF j.ok THEN j.st ELSE create_group(st, c)

\* SchedulerCompass::_assign_group
assign_group(st, c) == note_assigned(place_in_group(st, c))

\* ------------------------------------------------- server-side actors

\* this_actor::execute begins: the actor is suspended until its flops are done
exec_start(st, a, pc, c, g, q) ==
  [st EXCEPT !.act[a] = [pc |-> pc, c |-> c, g |-> g, q |-> q, t |-> now],
             !.hostq = Append(@, a)]

exec_end(st, a) == [st EXCEPT !.hostq = RemoveAll(@, a)]

\* CPU sharing on the server's host: an execute cannot end while one that
\* started before it with no more work still runs
MayFinish(a) ==
  \E i \in 1 .. Len(hostq) :
     /\ hostq[i] = a
     /\ \A j \in 1 .. (i - 1) : Work(act[hostq[j]].pc) > Work(act[a].pc)

\* the instant at which the execute of actor a ends
EndOf(a) == act[a].t + Cost(act[a].pc)

\* the execute of actor a is over
Elapsed(a) == MayFinish(a) /\ now >= EndOf(a)

\* server(), lines 626-634, once scheduler->update() has returned; a deadline
\* actor ends when delayed_action returns
ret(st, a) ==
  IF a = SRV
  THEN LET s1 == [st EXCEPT !.loop_step = @ + 1]
       IN IF validation_flag \/ s1.loop_step = num_epochs
          THEN exec_start(s1, SRV, "val_exec", -1, -1, <<>>)
          ELSE [s1 EXCEPT !.act[SRV] = Idle("get")]
  ELSE [st EXCEPT !.act[a] = Idle("done")]

\* the value _send_model puts for a client
model_value(info) == info.local_steps

\* SchedulerCompass::_send_model for the head of queue, up to the put of
\* _send_global_model_to_client; the rest of queue follows when it returns
send_model(st, a, queue) ==
  IF queue = <<>> THEN ret(st, a)
  ELSE LET c == Head(queue)
           v == model_value(st.client_info[c])
       IN [st EXCEPT !.client_info[c].total_steps = @ + st.client_info[c].local_steps,
                     !.mbox[c] = Append(@, [from |-> a, val |-> v]),
                     !.act[a] = [pc |-> "put", c |-> c, g |-> -1, q |-> Tail(queue), t |-> 0],
                     !.sent_steps = @ \cup {v},
                     !.tally.models = @ + 1,
                     !.tally.sent[c] = @ + 1]

\* _single_update that never sends the model back
single_tail_no_send(st, c) ==
  exec_start(assign_group([st EXCEPT !.client_info[c].step = st.global_step], c),
             SRV, "ua_exec", c, -1, <<>>)

\* the tail of _single_update, after server->single_buffer or server->update
single_tail(st, c) ==
  LET s1 == [st EXCEPT !.client_info[c].step = st.global_step]
      s2 == assign_group(s1, c)
  IN IF s2.iter < num_epochs
     THEN send_model(s2, SRV, <<c>>)
     ELSE exec_start(s2, SRV, "ua_exec", c, -1, <<>>)

\* std::sort of client_speed by ascending speed (insertion sort: equal speeds
\* keep their order)
RECURSIVE insert_by_speed(_, _, _)
insert_by_speed(sorted, c, info) ==
  IF sorted = <<>> THEN <<c>>
  ELSE IF info[c].speed < info[Head(sorted)].speed
       THEN <<c>> \o sorted
       ELSE <<Head(sorted)>> \o insert_by_speed(Tail(sorted), c, info)

RECURSIVE sort_by_speed(_, _)
sort_by_speed(s, info) ==
  IF s = <<>> THEN <<>>
  ELSE insert_by_speed(sort_by_speed(SubSeq(s, 1, Len(s) - 1), info), s[Len(s)], info)

\* _group_aggregation sending to the arrived clients without assigning them
assign_none(st, queue) == st

RECURSIVE assign_all(_, _)
assign_all(st, queue) ==
  IF queue = <<>> THEN st
  ELSE assign_all(assign_group(st, Head(queue)), Tail(queue))

\* _group_aggregation zeroing expected_arrival_time only
zero_expected_only(grp) == [grp EXCEPT !.expected_arrival_time = 0]

\* lines 435-436 of _group_aggregation
zero_times(grp) == [grp EXCEPT !.expected_arrival_time = 0, !.latest_arrival_time = 0]

\* a group is kept in the map though no client is awaited
never_erase(st, g) == st

\* lines 442-447 of _group_aggregation
erase_if_empty(st, g) ==
  IF st.group_of_arrival[g].clients = <<>>
  THEN [st EXCEPT !.group_of_arrival = Erase(@, g)]
  ELSE st

\* history: a pass reaches line 457 with these arrived clients
note_tail(st, client_speed) ==
  [st EXCEPT !.tally.tail_clients = @ + Len(client_speed)]

\* SchedulerCompass::_group_aggregation from line 424, after server->update_group
agg_body(st, a, g) ==
  IF g \notin DOMAIN st.group_of_arrival
  THEN [st EXCEPT !.fault = "null_goa"]
  ELSE LET arrived == st.group_of_arrival[g].arrived_clients
           s1 == [st EXCEPT !.client_info =
                    [c \in Clients |-> IF InSeq(c, arrived)
                                       THEN [@[c] EXCEPT !.step = st.global_step]
                                       ELSE @[c]]]
           client_speed == sort_by_speed(arrived, s1.client_info)
           s2 == [s1 EXCEPT !.group_of_arrival[g] = zero_times(@)]
           s3 == assign_all(s2, client_speed)
           s4 == erase_if_empty(s3, g)
       IN IF s4.iter < num_epochs
          THEN send_model(s4, a, client_speed)
          ELSE exec_start(note_tail(s4, client_speed), a, "ua_exec", -1, g, <<>>)

\* history: an aggregation pass begins on group g
note_pass(st, a, g) ==
  IF st.ginfo[g].pass # -1 THEN st
  ELSE [st EXCEPT !.ginfo[g].pass = now,
                  !.ginfo[g].by = IF a = SRV THEN "last" ELSE "deadline",
                  !.ginfo[g].waiting = Len(st.group_of_arrival[g].clients)]

\* mutant of update_group_acts: the test of line 203 inverted
update_group_if_present(st, g) == g \in DOMAIN st.group_pseudo_grad

\* ServerFedCompass::update_group: does it execute (and then step the model)?
update_group_acts(st, g) == g \notin DOMAIN st.group_pseudo_grad

\* ServerFedCompass::update_group, lines 206-208, once its execute is over
update_group_step(st, g) ==
  [st EXCEPT !.global_step = @ + 1,
             !.general_buffer_size = 0,
             !.group_pseudo_grad = Erase(@, g)]

\* ServerFedCompass::update_group as one call, its execute not interrupted
update_group(st, g) ==
  IF update_group_acts(st, g) THEN update_group_step(st, g) ELSE st

\* _group_aggregation without the test of line 421
group_aggregation_unchecked(st, a, g) ==
  IF update_group_acts(st, g)
  THEN exec_start(st, a, "ug_exec", -1, g, <<>>)
  ELSE agg_body(st, a, g)

\* SchedulerCompass::_group_aggregation up to the execute of update_group
group_aggregation(st, a, g) ==
  IF g \notin DOMAIN st.group_of_arrival THEN ret(st, a)
  ELSE LET s1 == note_pass(st, a, g)
       IN IF update_group_acts(s1, g)
          THEN exec_start(s1, a, "ug_exec", -1, g, <<>>)
          ELSE agg_body(s1, a, g)

\* _group_update leaving the client in the clients list
keep_client(s, c) == s

\* clients.erase(std::remove(begin, end, c)): one c leaves the list
RECURSIVE remove_client(_, _)
remove_client(s, c) ==
  IF s = <<>> THEN <<>>
  ELSE IF Head(s) = c THEN Tail(s)
       ELSE <<Head(s)>> \o remove_client(Tail(s), c)

\* the test of line 531
arrives_late(grp) == now >= grp.latest_arrival_time

\* mutant of reset_buffered: buffer without lines 182-185
keep_buffered(gpg, g) == gpg

\* ServerFedCompass::buffer, lines 182-185, before its execute
reset_buffered(gpg, g) ==
  IF g \in DOMAIN gpg THEN [gpg EXCEPT ![g] = 0] ELSE gpg

\* SchedulerCompass::_group_update up to the execute of single_buffer or buffer
group_update(st, c, g) ==
  IF g \notin DOMAIN st.group_of_arrival
  THEN [st EXCEPT !.fault = "null_goa"]
  ELSE IF ~InSeq(c, st.group_of_arrival[g].clients)
  THEN [st EXCEPT !.fault = "erase_end"]
  ELSE IF arrives_late(st.group_of_arrival[g])
  THEN LET s1 == [st EXCEPT !.group_of_arrival[g].clients = remove_client(@, c)]
       IN exec_start(erase_if_empty(s1, g), SRV, "sbuf_exec", c, -1, <<>>)
  ELSE LET s1 == [st EXCEPT !.group_of_arrival[g].clients = remove_client(@, c),
                            !.group_of_arrival[g].arrived_clients = Append(@, c),
                            !.group_pseudo_grad = reset_buffered(@, g)]
       IN exec_start(s1, SRV, "buf_exec", c, g, <<>>)

\* SchedulerCompass::_update up to the first execute below it
update(st, c) ==
  LET s1 == [st EXCEPT !.iter = @ + 1]
      group_idx == s1.client_info[c].goa
  IN IF group_idx = -1
     THEN exec_start(s1, SRV, "upd_exec", c, -1, <<>>)
     ELSE group_update(s1, c, group_idx)

\* server(), lines 645-649: the put of the sentinel for client i
sentinel_put(st, i) ==
  IF i >= num_clients THEN [st EXCEPT !.act[SRV] = Idle("done")]
  ELSE [st EXCEPT !.mbox[i] = Append(@, [from |-> SRV, val |-> -1]),
                  !.act[SRV] = [Idle("sput") EXCEPT !.c = i]]

\* server(), line 637: the test of the drain loop
drain_or_sentinel(st) ==
  IF st.pending_clients # {}
  THEN [st EXCEPT !.act[SRV] = Idle("drain_get")]
  ELSE sentinel_put(st, 0)

\* ---------------------------------------------------------------- actions

EmptyMap == [x \in {} |-> 0]

\* history at the start of a run: nothing sent, assigned or received, no
\* return processed, no speed sample taken, no pass at line 457 yet, no model
\* put for any client
NoTally ==
  [models |-> 0, assigned |-> 0, unsent |-> 0, replies |-> 0,
   tail_clients |-> 0, tail_steps |-> 0,
   returns |-> [c \in Clients |-> 0], sample |-> [c \in Clients |-> 0],
   sent |-> [c \in Clients |-> 0]]

\* the FedCompass binary runs neither FedAvg's actors nor, in this
\* specification, the straggler parse (QRatio and the costs are fixed above)
AvgOff == [on |-> FALSE]
FxOff == [on |-> FALSE]

Init ==
  /\ now = 0
  /\ cl = [c \in 0 .. (NumClients - 1) |-> Boot(0)]
  /\ mbox = [c \in Clients |-> <<>>]
  /\ inbox = <<>>
  /\ act = (SRV :> [Idle("bcast") EXCEPT !.c = 0])
  /\ hostq = <<>>
  /\ pending_clients = {}
  /\ iter = 0
  /\ group_counter = 0
  /\ client_info = [c \in Clients |-> NullInfo]
  /\ group_of_arrival = EmptyMap
  /\ global_step = 0
  /\ general_buffer_size = 0
  /\ group_pseudo_grad = EmptyMap
  /\ loop_step = 0
  /\ fault = "none"
  /\ ginfo = EmptyMap
  /\ sent_steps = {}
  /\ tally = NoTally
  /\ avg = AvgOff
  /\ fx = FxOff
  /\ num_epochs \in 0 .. NumEpochs
  /\ kernel_order = "simgrid"

Running == fault = "none"

\* server(), lines 608-619: the two puts of the broadcast to client i, met by
\* the client's two gets (lines 687 and 692); after the last one the scheduler
\* is constructed and its start_time is the origin of `now`
ServerBroadcast ==
  /\ Running
  /\ act[SRV].pc = "bcast"
  /\ LET i == act[SRV].c
     IN /\ cl[i].pc = "boot"
        /\ Commit([Cur EXCEPT
              !.cl[i] = training(cl[i], MaxLocalSteps, now),
              !.pending_clients = @ \cup {i},
              !.tally.models = @ + 1,
              !.tally.sent[i] = @ + 1,
              !.act[SRV] = IF i + 1 = num_clients THEN Idle("get")
                           ELSE [Idle("bcast") EXCEPT !.c = i + 1]])
  /\ UNCHANGED now

\* client(), lines 701-706: the training execute ends and the reply put begins
ClientTrainDone(c) ==
  /\ Running
  /\ cl[c].pc = "train"
  /\ cl[c].unit = 0 \/ cl[c].t <= now
  /\ Commit([Cur EXCEPT !.cl[c].pc = "reply", !.inbox = Append(@, c)])
  /\ UNCHANGED now

\* client(), lines 692-700: the get of the next message ends; the put of the
\* sender ends with it and the sender begins the execute that follows its put
ClientGet(c) ==
  /\ Running
  /\ cl[c].pc = "wait"
  /\ mbox[c] # <<>>
  /\ LET m == Head(mbox[c])
         a == m.from
         s1 == [Cur EXCEPT !.mbox[c] = Tail(@),
                           !.cl[c] = IF m.val < 0
                                     THEN [@ EXCEPT !.pc = "done", !.steps = -1]
                                     ELSE training(@, m.val, now)]
     IN Commit(exec_start(s1, a, IF act[a].pc = "sput" THEN "sent_exec" ELSE "send_exec",
                          c, -1, act[a].q))
  /\ UNCHANGED now

\* _recv_local_model_from_client, line 312: the get of the oldest reply ends
ServerGet ==
  /\ Running
  /\ act[SRV].pc = "get"
  /\ inbox # <<>>
  /\ LET c == Head(inbox)
         s1 == [Cur EXCEPT !.inbox = Tail(@), !.cl[c].pc = "wait",
                           !.tally.replies = @ + 1]
     IN Commit(exec_start(s1, SRV, "recv_exec", c, -1, <<>>))
  /\ UNCHANGED now

\* _recv_local_model_from_client from line 314, then _record_info and _update
RecvDone ==
  /\ Running
  /\ act[SRV].pc = "recv_exec"
  /\ Elapsed(SRV)
  /\ LET c == act[SRV].c
         s1 == [exec_end(Cur, SRV) EXCEPT !.pending_clients = @ \ {c}]
     IN Commit(update(record_info(note_return(s1, c), c), c))
  /\ UNCHANGED now

\* ServerFedCompass::update from line 170, then the tail of _single_update
UpdDone ==
  /\ Running
  /\ act[SRV].pc = "upd_exec"
  /\ Elapsed(SRV)
  /\ LET s1 == [exec_end(Cur, SRV) EXCEPT !.global_step = @ + 1]
     IN Commit(single_tail(s1, act[SRV].c))
  /\ UNCHANGED now

\* ServerFedCompass::single_buffer from line 193, then the tail of _single_update
SbufDone ==
  /\ Running
  /\ act[SRV].pc = "sbuf_exec"
  /\ Elapsed(SRV)
  /\ LET s1 == [exec_end(Cur, SRV) EXCEPT !.general_buffer_size = @ + 1]
     IN Commit(single_tail(s1, act[SRV].c))
  /\ UNCHANGED now

\* group_pseudo_grad[group_idx]++ of ServerFedCompass::buffer
count_buffered(gpg, g) ==
  IF g \in DOMAIN gpg THEN [gpg EXCEPT ![g] = @ + 1] ELSE gpg @@ (g :> 1)

\* ServerFedCompass::buffer from line 187, then _group_update from line 547
BufDone ==
  /\ Running
  /\ act[SRV].pc = "buf_exec"
  /\ Elapsed(SRV)
  /\ LET g == act[SRV].g
         s1 == [exec_end(Cur, SRV) EXCEPT !.group_pseudo_grad = count_buffered(@, g),
                                          !.ginfo[g].buffered = @ + 1]
     IN Commit(IF g \notin DOMAIN s1.group_of_arrival
               THEN [s1 EXCEPT !.fault = "null_goa"]
               ELSE IF s1.group_of_arrival[g].clients = <<>>
                    THEN group_aggregation(s1, SRV, g)
                    ELSE ret(s1, SRV))
  /\ UNCHANGED now

\* ServerFedCompass::update_group from line 206, then _group_aggregation from line 424
UgDone(a) ==
  /\ Running
  /\ a \in DOMAIN act
  /\ act[a].pc = "ug_exec"
  /\ Elapsed(a)
  /\ LET g == act[a].g
         s1 == update_group_step(exec_end(Cur, a), g)
     IN Commit(agg_body(s1, a, g))
  /\ UNCHANGED now

\* _send_global_model_to_client from line 407, then the next _send_model
SendExecDone(a) ==
  /\ Running
  /\ a \in DOMAIN act
  /\ act[a].pc = "send_exec"
  /\ Elapsed(a)
  /\ LET s1 == [exec_end(Cur, a) EXCEPT !.pending_clients = @ \cup {act[a].c}]
     IN Commit(send_model(s1, a, act[a].q))
  /\ UNCHANGED now

\* ServerFedCompass::update_all from line 215
UaDone(a) ==
  /\ Running
  /\ a \in DOMAIN act
  /\ act[a].pc = "ua_exec"
  /\ Elapsed(a)
  /\ Commit(ret([exec_end(Cur, a) EXCEPT
                   !.global_step = @ + 1,
                   !.tally.tail_steps = IF act[a].g = -1 THEN @ ELSE @ + 1], a))
  /\ UNCHANGED now

\* server(), lines 629-637: the validation execute ends
ValDone ==
  /\ Running
  /\ act[SRV].pc = "val_exec"
  /\ Elapsed(SRV)
  /\ LET s1 == exec_end(Cur, SRV)
     IN Commit(IF s1.loop_step = num_epochs THEN drain_or_sentinel(s1)
               ELSE [s1 EXCEPT !.act[SRV] = Idle("get")])
  /\ UNCHANGED now

\* server(), line 639: the get of the drain loop ends
DrainGet ==
  /\ Running
  /\ act[SRV].pc = "drain_get"
  /\ inbox # <<>>
  /\ LET c == Head(inbox)
         s1 == [Cur EXCEPT !.inbox = Tail(@), !.cl[c].pc = "wait",
                           !.tally.replies = @ + 1]
     IN Commit(exec_start(s1, SRV, "drain_exec", c, -1, <<>>))
  /\ UNCHANGED now

\* server(), lines 641-644, then the test of the drain loop
DrainDone ==
  /\ Running
  /\ act[SRV].pc = "drain_exec"
  /\ Elapsed(SRV)
  /\ LET s1 == [exec_end(Cur, SRV) EXCEPT !.pending_clients = @ \ {act[SRV].c}]
     IN Commit(drain_or_sentinel(s1))
  /\ UNCHANGED now

\* server(), line 647: the execute after a sentinel put ends; next client
SentExecDone ==
  /\ Running
  /\ act[SRV].pc = "sent_exec"
  /\ Elapsed(SRV)
  /\ Commit(sentinel_put(exec_end(Cur, SRV), act[SRV].c + 1))
  /\ UNCHANGED now

\* delayed_action from line 139: the sleep_for ends and _group_aggregation runs
DeadlineFire(d) ==
  /\ Running
  /\ d \in DOMAIN act
  /\ act[d].pc = "sleep"
  /\ act[d].t <= now
  /\ Commit(group_aggregation(Cur, d, act[d].g))
  /\ UNCHANGED now

Sleepers == {d \in DOMAIN act : act[d].pc = "sleep"}

\* the ends of the running executes
ExecEnds == {EndOf(a) : a \in SeqSet(hostq)}

\* the ends of the training executes whose duration the run fixes
TrainEnds == {cl[c].t : c \in {x \in Clients : cl[x].pc = "train" /\ cl[x].unit > 0}}

\* a run with control = 0: the duration of every training is fixed
FixedDurations == \A c \in Clients : cl[c].unit > 0

\* a put and a get that match after the broadcast: a client's get of a queued
\* model, the server's get of a reply
Matched ==
  \/ \E c \in Clients : cl[c].pc = "wait" /\ mbox[c] # <<>>
  \/ act[SRV].pc \in {"get", "drain_get"} /\ inbox # <<>>

\* the kernel advances the clock to the next event: the next wake-up of a
\* sleep_for, the end of a running execute, or (up to the horizon) the next
\* whole second at which a reply may arrive, whichever is first; never past
\* a due wake-up, the end of an execute or the end of a training whose
\* duration is fixed.  A run with open durations leaves the duration of a
\* communication open as well; a run with fixed durations leaves open only
\* how long the broadcast of lines 608-616 takes and completes every later
\* matched communication before the clock advances.
Tick ==
  /\ Running
  /\ FixedDurations => ~Matched
  /\ \A d \in Sleepers : act[d].t > now
  /\ \A t \in ExecEnds \cup TrainEnds : t > now
  /\ LET second == ((now \div TimeScale) + 1) * TimeScale
         targets == {t \in {second} : t <= Horizon}
                      \cup {act[d].t : d \in Sleepers}
                      \cup ExecEnds \cup TrainEnds
     IN /\ targets # {}
        /\ now' = CHOOSE x \in targets : \A y \in targets : x <= y
  /\ UNCHANGED <<cl, mbox, inbox, act, hostq, pending_clients, iter, group_counter,
                 client_info, group_of_arrival, global_step, general_buffer_size,
                 group_pseudo_grad, loop_step, fault, ginfo, sent_steps, tally,
                 avg, fx, num_epochs, kernel_order>>

Actors == SRV .. (num_clients * (num_epochs + 2))

Next ==
  \/ ServerBroadcast
  \/ \E c \in Clients : ClientTrainDone(c)
  \/ \E c \in Clients : ClientGet(c)
  \/ ServerGet
  \/ RecvDone
  \/ UpdDone
  \/ SbufDone
  \/ BufDone
  \/ \E a \in Actors : UgDone(a)
  \/ \E a \in Actors : SendExecDone(a)
  \/ \E a \in Actors : UaDone(a)
  \/ ValDone
  \/ DrainGet
  \/ DrainDone
  \/ SentExecDone
  \/ \E d \in Actors : DeadlineFire(d)
  \/ Tick

Spec == Init /\ [][Next]_vars

\* the same program under a kernel that may resume the creator of an actor
\* before it starts the actor
InitAnyOrder ==
  /\ now = 0
  /\ cl = [c \in 0 .. (NumClients - 1) |-> Boot(0)]
  /\ mbox = [c \in Clients |-> <<>>]
  /\ inbox = <<>>
  /\ act = (SRV :> [Idle("bcast") EXCEPT !.c = 0])
  /\ hostq = <<>>
  /\ pending_clients = {}
  /\ iter = 0
  /\ group_counter = 0
  /\ client_info = [c \in Clients |-> NullInfo]
  /\ group_of_arrival = EmptyMap
  /\ global_step = 0
  /\ general_buffer_size = 0
  /\ group_pseudo_grad = EmptyMap
  /\ loop_step = 0
  /\ fault = "none"
  /\ ginfo = EmptyMap
  /\ sent_steps = {}
  /\ tally = NoTally
  /\ avg = AvgOff
  /\ fx = FxOff
  /\ num_epochs = NumEpochs
  /\ kernel_order \in {"actor", "creator"}

SpecAnyOrder == InitAnyOrder /\ [][Next]_vars

\* the runs with control = 0 (client(), line 702): every client trains at a
\* fixed duration per local step, which its host and main's client_multiplier
\* (lines 762-764 and 775-777) set
InitFixed ==
  /\ now = 0
  /\ \E u \in [0 .. (FixedClients - 1) -> MinUnit .. MaxUnit] :
       cl = [c \in 0 .. (FixedClients - 1) |-> Boot(u[c])]
  /\ mbox = [c \in Clients |-> <<>>]
  /\ inbox = <<>>
  /\ act = (SRV :> [Idle("bcast") EXCEPT !.c = 0])
  /\ hostq = <<>>
  /\ pending_clients = {}
  /\ iter = 0
  /\ group_counter = 0
  /\ client_info = [c \in Clients |-> NullInfo]
  /\ group_of_arrival = EmptyMap
  /\ global_step = 0
  /\ general_buffer_size = 0
  /\ group_pseudo_grad = EmptyMap
  /\ loop_step = 0
  /\ fault = "none"
  /\ ginfo = EmptyMap
  /\ sent_steps = {}
  /\ tally = NoTally
  /\ avg = AvgOff
  /\ fx = FxOff
  /\ num_epochs = FixedEpochs
  /\ kernel_order = "simgrid"

SpecFixed == InitFixed /\ [][Next]_vars

\* every step of an actor (the clock apart)
ActorStep ==
  \/ ServerBroadcast
  \/ \E c \in Clients : ClientTrainDone(c)
  \/ \E c \in Clients : ClientGet(c)
  \/ ServerGet
  \/ RecvDone
  \/ UpdDone
  \/ SbufDone
  \/ BufDone
  \/ \E a \in Actors : UgDone(a)
  \/ \E a \in Actors : SendExecDone(a)
  \/ \E a \in Actors : UaDone(a)
  \/ ValDone
  \/ DrainGet
  \/ DrainDone
  \/ SentExecDone
  \/ \E d \in Actors : DeadlineFire(d)

\* e.run() returns: no actor is in an execute or a sleep_for, and no put or
\* get can be matched
SimulationEnded ==
  /\ Running
  /\ hostq = <<>>
  /\ Sleepers = {}
  /\ ~ENABLED ActorStep

Groups == DOMAIN group_of_arrival
ClientsOf(g) == SeqSet(group_of_arrival[g].clients)
ArrivedOf(g) == SeqSet(group_of_arrival[g].arrived_clients)

\* ------------------------------------------------------------------ FedAvg
\* FedAvg.cpp: one server and client_count clients; the server's puts and
\* gets and the clients' are synchronous, so a message passes when both sides
\* are at their call.  Durations of the executes are left open: a client's
\* training may end at any moment, in any order.

AvgClients(n) == 0 .. n - 1

\* mutant of avg_awaiting: the round closes after the first arrival
avg_awaiting_first(st) == st.arrival_client_count < 1

\* server(), line 63: while (arrival_client_count < client_count)
avg_awaiting(st) == st.arrival_client_count < st.client_count

\* client(), line 107: for (int i = 0; i < num_epochs + 1; i++)
avg_client_loops(st, c) == st.ci[c] < st.epoch_count + 1

\* server(), line 53: for (int round = 0; round < epoch_count; round++)
avg_round_start(st) ==
  IF st.round < st.epoch_count
  THEN [st EXCEPT !.spc = "token", !.i = 0]
  ELSE [st EXCEPT !.spc = "done"]

\* main(), lines 264-288: the actors as created, for client_count = n and
\* epochs = e; every actor starts in its dataloader execute
AvgStart(n, e) ==
  [on |-> TRUE, client_count |-> n, epoch_count |-> e,
   spc |-> "load", round |-> 0, i |-> 0, arrival_client_count |-> 0,
   cpc |-> [c \in AvgClients(n) |-> "load"],
   ci |-> [c \in AvgClients(n) |-> 0],
   inbox |-> <<>>,
   tokens |-> [c \in AvgClients(n) |-> 0],
   replies |-> [c \in AvgClients(n) |-> 0]]

InitAvg ==
  /\ now = 0
  /\ cl = [c \in 0 .. (NumClients - 1) |-> Boot(0)]
  /\ mbox = [c \in Clients |-> <<>>]
  /\ inbox = <<>>
  /\ act = (SRV :> [Idle("bcast") EXCEPT !.c = 0])
  /\ hostq = <<>>
  /\ pending_clients = {}
  /\ iter = 0
  /\ group_counter = 0
  /\ client_info = [c \in Clients |-> NullInfo]
  /\ group_of_arrival = EmptyMap
  /\ global_step = 0
  /\ general_buffer_size = 0
  /\ group_pseudo_grad = EmptyMap
  /\ loop_step = 0
  /\ fault = "none"
  /\ ginfo = EmptyMap
  /\ sent_steps = {}
  /\ tally = NoTally
  /\ fx = FxOff
  /\ num_epochs = NumEpochs
  /\ kernel_order = "simgrid"
  /\ \E n \in 1 .. NumClients, e \in 0 .. NumEpochs : avg = AvgStart(n, e)

AvgFrame ==
  UNCHANGED <<now, cl, mbox, inbox, act, hostq, pending_clients, iter,
              group_counter, client_info, group_of_arrival, global_step,
              general_buffer_size, group_pseudo_grad, loop_step, fault, ginfo,
              sent_steps, tally, fx, num_epochs, kernel_order>>

\* server(), lines 46-48: the dataloader execute ends, the first put begins
AvgServerLoaded ==
  /\ avg.spc = "load"
  /\ avg' = [avg EXCEPT !.spc = "size", !.i = 0]
  /\ AvgFrame

\* client(), lines 100-106: the dataloader execute ends, the first get begins
AvgClientLoaded(c) ==
  /\ avg.cpc[c] = "load"
  /\ avg' = [avg EXCEPT !.cpc[c] = "size"]
  /\ AvgFrame

\* server(), lines 48-51, and client(), lines 106-107: the model size passes
\* to client i; the client enters its loop, the server goes to the next
\* client or to the first round
AvgSize(c) ==
  /\ avg.spc = "size"
  /\ avg.i = c
  /\ avg.cpc[c] = "size"
  /\ LET got == [avg EXCEPT !.cpc[c] = IF avg_client_loops(avg, c)
                                      THEN "get" ELSE "done"]
     IN avg' = IF c + 1 < avg.client_count
               THEN [got EXCEPT !.i = c + 1]
               ELSE avg_round_start([got EXCEPT !.round = 0])
  /\ AvgFrame

\* server(), line 58, and client(), line 109: the token of the round passes
\* to client i, which starts training; the server starts its execute
AvgToken(c) ==
  /\ avg.spc = "token"
  /\ avg.i = c
  /\ avg.cpc[c] = "get"
  /\ avg' = [avg EXCEPT !.cpc[c] = "train", !.tokens[c] = @ + 1,
                        !.spc = "sent"]
  /\ AvgFrame

\* server(), lines 56-63: the execute after a put ends; next client, or the
\* collection of the round starts with arrival_client_count = 0
AvgSent ==
  /\ avg.spc = "sent"
  /\ avg' = IF avg.i + 1 < avg.client_count
            THEN [avg EXCEPT !.spc = "token", !.i = @ + 1]
            ELSE LET st == [avg EXCEPT !.arrival_client_count = 0]
                 IN IF avg_awaiting(st) THEN [st EXCEPT !.spc = "get"]
                    ELSE avg_round_start([st EXCEPT !.round = @ + 1])
  /\ AvgFrame

\* client(), lines 110-115: the training execute ends, the reply put begins
AvgTrained(c) ==
  /\ avg.cpc[c] = "train"
  /\ avg' = [avg EXCEPT !.cpc[c] = "put", !.inbox = Append(@, c)]
  /\ AvgFrame

\* server(), line 65, and client(), lines 115 and 107: the oldest reply put
\* passes to the server's get; the client goes round its loop
AvgReply ==
  /\ avg.spc = "get"
  /\ avg.inbox # <<>>
  /\ LET c == Head(avg.inbox)
         st == [avg EXCEPT !.inbox = Tail(@), !.replies[c] = @ + 1,
                           !.ci[c] = @ + 1, !.spc = "got"]
     IN avg' = [st EXCEPT !.cpc[c] = IF avg_client_loops(st, c)
                                     THEN "get" ELSE "done"]
  /\ AvgFrame

\* server(), lines 63-69: the execute after a get ends; next get, or the next
\* round, or the end of server()
AvgGot ==
  /\ avg.spc = "got"
  /\ LET st == [avg EXCEPT !.arrival_client_count = @ + 1]
     IN avg' = IF avg_awaiting(st)
               THEN [st EXCEPT !.spc = "get"]
               ELSE avg_round_start([st EXCEPT !.round = @ + 1])
  /\ AvgFrame

NextAvg ==
  \/ AvgServerLoaded
  \/ \E c \in Clients : c \in DOMAIN avg.cpc /\ AvgClientLoaded(c)
  \/ \E c \in Clients : c \in DOMAIN avg.cpc /\ AvgSize(c)
  \/ \E c \in Clients : c \in DOMAIN avg.cpc /\ AvgToken(c)
  \/ AvgSent
  \/ \E c \in Clients : c \in DOMAIN avg.cpc /\ AvgTrained(c)
  \/ AvgReply
  \/ AvgGot

\* e.run() runs every actor that can proceed until none can
SpecAvg == InitAvg /\ [][NextAvg]_vars /\ WF_vars(NextAvg)

RECURSIVE SumOver(_, _)
SumOver(f, S) ==
  IF S = {} THEN 0
  ELSE LET x == CHOOSE y \in S : TRUE IN f[x] + SumOver(f, S \ {x})

AvgTokens == SumOver(avg.tokens, DOMAIN avg.tokens)
AvgReplies == SumOver(avg.replies, DOMAIN avg.replies)

\* ------------------------------------------------- straggler configuration
\* parse_client_effects (FedCompass.cpp lines 54-130, FedAvg.cpp lines
\* 146-222, the same text) on well-typed rules.  A JSON integer is any
\* integer; get<int>() keeps its low IntBits bits (int is 32 bits wide).  A
\* double > 0 is <<m, e>>, the value m * 2^e with a mantissa m of MantBits
\* bits (53 in a double); <<m, 0>> with m <= 0 stands for a double <= 0.

RECURSIVE Pow2(_)
Pow2(n) == IF n = 0 THEN 1 ELSE 2 * Pow2(n - 1)

\* basic_json::get<int>() on a number_integer: static_cast<int>
to_int(j) == ((j + Pow2(IntBits - 1)) % Pow2(IntBits)) - Pow2(IntBits - 1)

\* operator* of double: the exact product rounded to nearest, ties to even
fmul(x, y) ==
  LET p == x[1] * y[1]
      sh == IF p >= Pow2(2 * MantBits - 1) THEN MantBits ELSE MantBits - 1
      q == p \div Pow2(sh)
      r == p % Pow2(sh)
      half == Pow2(sh - 1)
      q1 == IF r > half \/ (r = half /\ q % 2 = 1) THEN q + 1 ELSE q
  IN IF q1 = Pow2(MantBits)
     THEN <<q1 \div 2, x[2] + y[2] + sh + 1>>
     ELSE <<q1, x[2] + y[2] + sh>>

\* the double 1.0 (client_multiplier's default, line 747)
One == <<Pow2(MantBits - 1), 1 - MantBits>>

\* xbt_assert(effect > 0.0), line 66
positive(effect) == effect[1] > 0

\* the state of one call: the map, the flag of the rule, and whether an
\* xbt_assert has ended the program
ParseStart == [ok |-> TRUE, applied |-> FALSE, effects |-> EmptyMap]

xbt_abort(st) == [st EXCEPT !.ok = FALSE]

\* the lambda apply_to_client, lines 69-81
apply_to_client(st, effect, client_id, total_clients) ==
  IF ~st.ok THEN st
  ELSE IF ~(client_id >= 0 /\ client_id < total_clients) THEN xbt_abort(st)
  ELSE [st EXCEPT
          !.applied = TRUE,
          !.effects = IF client_id \in DOMAIN @
                      THEN [@ EXCEPT ![client_id] = fmul(@, effect)]
                      ELSE (client_id :> effect) @@ @]

\* lines 89-97: for (const auto &client_val : rule["clients"])
RECURSIVE apply_clients(_, _, _, _)
apply_clients(st, effect, ids, total_clients) ==
  IF ids = <<>> \/ ~st.ok THEN st
  ELSE apply_clients(
         apply_to_client(st, effect, to_int(Head(ids)), total_clients),
         effect, Tail(ids), total_clients)

\* lines 120-123: for (int client = start_client; client <= end_client; ++client)
RECURSIVE apply_range(_, _, _, _, _)
apply_range(st, effect, client, end_client, total_clients) ==
  IF client > end_client \/ ~st.ok THEN st
  ELSE apply_range(apply_to_client(st, effect, client, total_clients),
                   effect, client + 1, end_client, total_clients)

\* lines 62-127: the body of the loop over the rules
parse_rule(st, rule, total_clients) ==
  LET effect == rule.effect
      s0 == IF positive(effect) THEN [st EXCEPT !.applied = FALSE]
            ELSE xbt_abort(st)
      s1 == IF s0.ok /\ "client" \in rule.keys
            THEN apply_to_client(s0, effect, to_int(rule.client),
                                 total_clients)
            ELSE s0
      s2 == IF s1.ok /\ "clients" \in rule.keys
            THEN apply_clients(s1, effect, rule.clients, total_clients)
            ELSE s1
      start_client == to_int(rule.range[1])
      end_client == to_int(rule.range[2])
      s3 == IF s2.ok /\ "range" \in rule.keys
            THEN IF start_client <= end_client
                 THEN apply_range(s2, effect, start_client, end_client,
                                  total_clients)
                 ELSE xbt_abort(s2)
            ELSE s2
  IN IF s3.ok /\ ~s3.applied THEN xbt_abort(s3) ELSE s3

RECURSIVE parse_from(_, _, _)
parse_from(st, rules, total_clients) ==
  IF rules = <<>> \/ ~st.ok THEN st
  ELSE parse_from(parse_rule(st, Head(rules), total_clients), Tail(rules),
                  total_clients)

\* parse_client_effects, lines 54-130
parse_client_effects(rules, total_clients) ==
  parse_from(ParseStart, rules, total_clients)

\* main(), lines 744-749: the lambda client_multiplier
client_multiplier(effects, client_id) ==
  IF client_id \in DOMAIN effects THEN effects[client_id] ELSE One

\* the rules the configurations are drawn from
Rule(effect, keys, client, clients, range) ==
  [effect |-> effect, keys |-> keys, client |-> client, clients |-> clients,
   range |-> range]

\* 1 + 2^(1 - MantBits) and 1.5: (a * a) * b and (a * b) * a round apart
EffectA == <<Pow2(MantBits - 1) + 1, 1 - MantBits>>
EffectB == <<3 * Pow2(MantBits - 2), 1 - MantBits>>

\* a JSON integer that get<int>() turns into 0
Wide == Pow2(IntBits)

JsonIds == {-1, 0, 1, NumClients, Wide}

RuleSet ==
  {Rule(f, {"client"}, id, <<>>, <<0, 0>>) :
     f \in {EffectA, EffectB}, id \in JsonIds}
  \cup {Rule(f, {"client"}, 0, <<>>, <<0, 0>>) : f \in {<<0, 0>>, <<-1, 0>>}}
  \cup {Rule(EffectA, {"clients"}, 0, ids, <<0, 0>>) :
          ids \in {<<>>, <<0, 0>>, <<0, 1>>, <<Wide>>}}
  \cup {Rule(EffectA, {"range"}, 0, <<>>, r) :
          r \in {<<0, 1>>, <<1, 0>>, <<0, Wide>>, <<Wide, 0>>}}
  \cup {Rule(EffectA, {}, 0, <<>>, <<0, 0>>)}
  \cup {Rule(EffectA, {"client", "clients"}, 0, <<0>>, <<0, 0>>),
        Rule(EffectA, {"client", "range"}, 0, <<>>, <<0, 0>>),
        Rule(EffectA, {"clients", "range"}, 0, <<1>>, <<0, 0>>)}

RuleLists == UNION {[1 .. k -> RuleSet] : k \in 0 .. MaxRules}

\* main(), lines 729-732: the scheduler parameters as read from the
\* configuration; q_ratio and lambda are fractions <<numerator, denominator>>
Cfg(q, l, m, e) ==
  [q_ratio |-> q, lambda |-> l, max_local_steps |-> m, epochs |-> e]

DefaultCfg == Cfg(QRatio, LambdaVal, MaxLocalSteps, NumEpochs)

\* no SchedulerCompass exists before line 619 of server()
NoScheduler == [built |-> FALSE]

\* SchedulerCompass::SchedulerCompass, lines 265-288, on the parameters that
\* server() hands over from its arguments (lines 580-584, 619)
SchedulerCompass(cfg) ==
  [built |-> TRUE,
   num_global_epochs |-> cfg.epochs,
   max_local_steps |-> cfg.max_local_steps,
   min_local_steps |->
     Max(TruncDiv(cfg.q_ratio[1] * cfg.max_local_steps, cfg.q_ratio[2]), 1),
   max_local_steps_bound |-> TruncDiv(12 * cfg.max_local_steps, 10),
   LATEST_TIME_FACTOR |-> cfg.lambda]

\* main(), lines 741-742: the configuration is loaded, nothing is parsed yet
FxStart(rules, n) ==
  [on |-> TRUE, rules |-> rules, total_clients |-> n, phase |-> "config",
   effects |-> EmptyMap, actors |-> {}, cfg |-> DefaultCfg,
   scheduler |-> NoScheduler]

InitFx ==
  /\ now = 0
  /\ cl = [c \in 0 .. (NumClients - 1) |-> Boot(0)]
  /\ mbox = [c \in Clients |-> <<>>]
  /\ inbox = <<>>
  /\ act = (SRV :> [Idle("bcast") EXCEPT !.c = 0])
  /\ hostq = <<>>
  /\ pending_clients = {}
  /\ iter = 0
  /\ group_counter = 0
  /\ client_info = [c \in Clients |-> NullInfo]
  /\ group_of_arrival = EmptyMap
  /\ global_step = 0
  /\ general_buffer_size = 0
  /\ group_pseudo_grad = EmptyMap
  /\ loop_step = 0
  /\ fault = "none"
  /\ ginfo = EmptyMap
  /\ sent_steps = {}
  /\ tally = NoTally
  /\ avg = AvgOff
  /\ num_epochs = NumEpochs
  /\ kernel_order = "simgrid"
  /\ \E rules \in RuleLists, n \in 1 .. NumClients : fx = FxStart(rules, n)

FxFrame ==
  UNCHANGED <<now, cl, mbox, inbox, act, hostq, pending_clients, iter,
              group_counter, client_info, group_of_arrival, global_step,
              general_buffer_size, group_pseudo_grad, loop_step, fault, ginfo,
              sent_steps, tally, avg, num_epochs, kernel_order>>

\* main(), line 742: the call returns the map, or an xbt_assert ends the
\* program
FxParse ==
  /\ fx.phase = "config"
  /\ LET res == parse_client_effects(fx.rules, fx.total_clients)
     IN fx' = IF res.ok
              THEN [fx EXCEPT !.phase = "parsed", !.effects = res.effects]
              ELSE [fx EXCEPT !.phase = "aborted"]
  /\ FxFrame

\* main(), lines 751-786: the server and the clients are created
FxCreateActors ==
  /\ fx.phase = "parsed"
  /\ fx' = [fx EXCEPT !.phase = "running",
                      !.actors = {SRV} \cup AvgClients(fx.total_clients)]
  /\ FxFrame

NextFx ==
  \/ FxParse
  \/ FxCreateActors

SpecFx == InitFx /\ [][NextFx]_vars

\* server(), lines 576-619: the server actor runs, reads its arguments,
\* broadcasts and constructs the scheduler
FxServerStart ==
  /\ fx.phase = "running"
  /\ fx' = [fx EXCEPT !.phase = "scheduled",
                      !.scheduler = SchedulerCompass(fx.cfg)]
  /\ FxFrame

\* the configurations main() is started with: no "stragglers" key, and
\* scheduler parameters inside and outside their documented ranges
CfgSet ==
  {Cfg(q, l, m, e) :
     q \in {<<0, 1>>, <<1, 5>>, <<1, 1>>, <<3, 2>>},
     l \in {<<1, 2>>, <<1, 1>>, <<3, 2>>},
     m \in 0 .. MaxLocalSteps,
     e \in -1 .. NumEpochs}

InitMain ==
  /\ now = 0
  /\ cl = [c \in 0 .. (NumClients - 1) |-> Boot(0)]
  /\ mbox = [c \in Clients |-> <<>>]
  /\ inbox = <<>>
  /\ act = (SRV :> [Idle("bcast") EXCEPT !.c = 0])
  /\ hostq = <<>>
  /\ pending_clients = {}
  /\ iter = 0
  /\ group_counter = 0
  /\ client_info = [c \in Clients |-> NullInfo]
  /\ group_of_arrival = EmptyMap
  /\ global_step = 0
  /\ general_buffer_size = 0
  /\ group_pseudo_grad = EmptyMap
  /\ loop_step = 0
  /\ fault = "none"
  /\ ginfo = EmptyMap
  /\ sent_steps = {}
  /\ tally = NoTally
  /\ avg = AvgOff
  /\ num_epochs = NumEpochs
  /\ kernel_order = "simgrid"
  /\ \E c \in CfgSet, n \in 1 .. NumClients :
       fx = [FxStart(<<>>, n) EXCEPT !.cfg = c]

NextMain ==
  \/ FxParse
  \/ FxCreateActors
  \/ FxServerStart

SpecMain == InitMain /\ [][NextMain]_vars

\* the documented ranges: q_ratio in (0, 1], lambda >= 1, M >= 1, epochs >= 0
InRange(cfg) ==
  /\ cfg.q_ratio[1] > 0 /\ cfg.q_ratio[1] <= cfg.q_ratio[2]
  /\ cfg.lambda[1] >= cfg.lambda[2]
  /\ cfg.max_local_steps >= 1
  /\ cfg.epochs >= 0

FxClients == AvgClients(fx.total_clients)

Accepted == fx.phase \in {"parsed", "running"}

\* the clients a rule names, as the JSON integers of its keys
Targeted(rule) ==
  (IF "client" \in rule.keys THEN {rule.client} ELSE {})
  \cup (IF "clients" \in rule.keys THEN SeqSet(rule.clients) ELSE {})
  \cup (IF "range" \in rule.keys
        THEN {c \in -1 .. Wide : rule.range[1] <= c /\ c <= rule.range[2]}
        ELSE {})

\* the product, in list order, of the effects of the rules that name c
RECURSIVE ProductFor(_, _, _)
ProductFor(acc, rules, c) ==
  IF rules = <<>> THEN acc
  ELSE ProductFor(IF c \in Targeted(Head(rules))
                  THEN fmul(acc, Head(rules).effect) ELSE acc,
                  Tail(rules), c)

Perms(k) == {p \in [1 .. k -> 1 .. k] : \A i, j \in 1 .. k : p[i] = p[j] => i = j}

Permuted(rules, p) == [i \in 1 .. Len(rules) |-> rules[p[i]]]

\* ------------------------------------------------------------------ claims

\* C1 (P1, client exclusivity): in every state, no client of a group of the
\* GOA map is both in its clients and in its arrived_clients, and no client
\* is in the clients of two groups.
ClientExclusivity ==
  /\ \A g \in Groups : ClientsOf(g) \cap ArrivedOf(g) = {}
  /\ \A g1, g2 \in Groups : g1 # g2 => ClientsOf(g1) \cap ClientsOf(g2) = {}

\* a group with a client arrived and a client awaited, beside another group
\* that awaits a client
ClientExclusivityWitness ==
  \E g1, g2 \in Groups :
     /\ g1 # g2
     /\ ClientsOf(g1) # {}
     /\ ArrivedOf(g1) # {}
     /\ ClientsOf(g2) # {}

\* C2 (global exclusivity): in every state, each client is in the
\* arrived_clients of at most one group, and no client is in the clients of
\* a group while in the arrived_clients of a group.
GlobalExclusivity ==
  \A c \in Clients :
     /\ Cardinality({g \in Groups : c \in ArrivedOf(g)}) <= 1
     /\ \A g1, g2 \in Groups : ~(c \in ClientsOf(g1) /\ c \in ArrivedOf(g2))

\* C3 (P4, termination): when the simulation ends, the server actor has left
\* its main loop, its drain loop and its sentinel loop and has exited; it is
\* not blocked in a get or a put.
ServerExits == SimulationEnded => act[SRV].pc = "done"

\* C4 (drain before sentinel): from the first sentinel put on,
\* pending_clients is empty and no model is in flight to a client, being
\* trained by a client or in a client's reply.
DrainBeforeSentinel ==
  act[SRV].pc \in {"sput", "sent_exec", "done"} =>
     /\ pending_clients = {}
     /\ \A c \in Clients :
          /\ cl[c].pc \notin {"train", "reply"}
          /\ \A i \in 1 .. Len(mbox[c]) : mbox[c][i].val < 0

\* C5 (sentinel delivery): when the simulation ends, every client actor has
\* received its sentinel and exited, and nothing was put for it afterwards;
\* no client is blocked in a get or in its reply put.
SentinelDelivery ==
  SimulationEnded => \A c \in Clients : cl[c].pc = "done" /\ mbox[c] = <<>>

\* C6 (P3, step bound): every local_steps value that _send_model has put for
\* a client lies in [min_local_steps, max_local_steps_bound].
StepBound ==
  \A v \in sent_steps : min_local_steps <= v /\ v <= max_local_steps_bound

\* both ends of the interval have been sent, and a client has joined a group
StepBoundWitness ==
  /\ min_local_steps \in sent_steps
  /\ max_local_steps_bound \in sent_steps
  /\ \E g \in Groups : Len(group_of_arrival[g].clients) >= 2

\* C7 (P2, first half): every group of the GOA map has
\* expected_arrival_time <= latest_arrival_time.
DeadlineOrder ==
  \A g \in Groups :
     group_of_arrival[g].expected_arrival_time <= group_of_arrival[g].latest_arrival_time

\* C8 (P2, second half), as stated: every group of the GOA map has
\* expected_arrival_time and latest_arrival_time no earlier than its creation.
DeadlineLowerBound ==
  \A g \in Groups :
     /\ group_of_arrival[g].expected_arrival_time >= ginfo[g].created
     /\ group_of_arrival[g].latest_arrival_time >= ginfo[g].created

\* C8, amended: every group of the GOA map has expected_arrival_time and
\* latest_arrival_time no earlier than its creation until an aggregation pass
\* has begun on it; from then on both are 0 or both are no earlier than its
\* creation.
DeadlineLowerBoundUntilAggregated ==
  \A g \in Groups :
     \/ /\ group_of_arrival[g].expected_arrival_time >= ginfo[g].created
        /\ group_of_arrival[g].latest_arrival_time >= ginfo[g].created
     \/ /\ ginfo[g].pass # -1
        /\ group_of_arrival[g].expected_arrival_time = 0
        /\ group_of_arrival[g].latest_arrival_time = 0

\* a group created after time 0, aggregated by its deadline, with a straggler
\* still in its clients list and its times zeroed
DeadlineLowerBoundWitness ==
  \E g \in Groups :
     /\ ginfo[g].created > 0
     /\ ginfo[g].by = "deadline"
     /\ group_of_arrival[g].clients # <<>>
     /\ group_of_arrival[g].latest_arrival_time = 0

\* C9 (aggregation timing): the first aggregation pass on a group begins no
\* later than the latest_arrival_time the group was created with, and a
\* group whose clients have all returned on time is aggregated by the return
\* of the last of them, not by its deadline.
AggregationTiming ==
  \A g \in DOMAIN ginfo :
     /\ ginfo[g].pass <= ginfo[g].deadline
     /\ (g \in Groups /\ ginfo[g].pass = -1) => now <= ginfo[g].deadline
     /\ ginfo[g].by = "deadline" => ginfo[g].waiting > 0

\* C10 (GOA-map consistency): whenever the scheduler reads or writes
\* group_of_arrival[g], g is in the map (and a reply's client is in
\* g.clients): no run dereferences a missing group.
GOAPresent == fault = "none"

\* SchedulerCompass::update returns to the loop of server(): the server leaves
\* the last execute below update() for its next get or for the validation
UpdateReturns ==
  /\ act[SRV].pc \in {"send_exec", "ua_exec", "buf_exec"}
  /\ act'[SRV].pc \in {"get", "val_exec"}

\* the reply's client is held in its group, which is still in the GOA map
HeldInGroup ==
  /\ act[SRV].pc = "buf_exec"
  /\ act[SRV].g \in DOMAIN group_of_arrival'
  /\ InSeq(act[SRV].c, group_of_arrival'[act[SRV].g].arrived_clients)

\* C11 (update() postcondition), as stated: whenever update() returns, for
\* any iter, it has just sent a model (it returns from
\* _send_global_model_to_client) or the reply's client is in arrived_clients
\* of its group, which is in the GOA map.
UpdatePostcondition ==
  [][UpdateReturns => (act[SRV].pc = "send_exec" \/ HeldInGroup)]_vars

\* C11, amended: whenever update() returns with iter < E it has just sent a
\* model or the reply's client is held in its group; with iter >= E it
\* returns from update_all without a send, or with the client held.
UpdatePostconditionWhileTraining ==
  [][UpdateReturns =>
       IF iter < num_epochs THEN act[SRV].pc = "send_exec" \/ HeldInGroup
       ELSE act[SRV].pc = "ua_exec" \/ HeldInGroup]_vars

\* update() has returned before the last epoch leaving a client held in a
\* group that still waits for another, after a return that sent a model
UpdatePostconditionWitness ==
  /\ act[SRV].pc = "get"
  /\ loop_step >= 2
  /\ iter < num_epochs
  /\ \E g \in Groups : /\ group_of_arrival[g].arrived_clients # <<>>
                       /\ group_of_arrival[g].clients # <<>>
                       /\ ginfo[g].pass = -1

\* _group_update takes its late branch: the receive's execute ends and the
\* execute of single_buffer begins
LateArrival == act[SRV].pc = "recv_exec" /\ act'[SRV].pc = "sbuf_exec"

\* the late branch up to single_buffer: the client leaves g.clients, is not in
\* g.arrived_clients, g is erased if it awaits nobody, and neither counter moves
LateBranchEffect ==
  LET c == act[SRV].c
      g == client_info[c].goa
  IN LateArrival =>
       /\ g \in Groups
       /\ now >= group_of_arrival[g].latest_arrival_time
       /\ IF SeqSet(group_of_arrival[g].clients) = {c}
          THEN g \notin DOMAIN group_of_arrival'
          ELSE /\ g \in DOMAIN group_of_arrival'
               /\ ~InSeq(c, group_of_arrival'[g].clients)
               /\ group_of_arrival'[g].arrived_clients = group_of_arrival[g].arrived_clients
               /\ ~InSeq(c, group_of_arrival'[g].arrived_clients)
       /\ general_buffer_size' = general_buffer_size
       /\ global_step' = global_step

\* single_buffer returns into _single_update(buffer = true)
SingleBufferEnds == act[SRV].pc = "sbuf_exec" /\ act'[SRV].pc # "sbuf_exec"

\* C12 (late arrival), as stated: a reply processed at now >= latest leaves
\* g.clients, never enters g.arrived_clients, g is deleted if it became
\* empty, general_buffer_size grows by exactly one, and for any iter the
\* processing goes on to _send_model without a change of global_step (it
\* does not run update_all, which increments global_step).
LateArrivalEffect ==
  [][/\ LateBranchEffect
     /\ SingleBufferEnds =>
          /\ general_buffer_size' = general_buffer_size + 1
          /\ global_step' = global_step
          /\ act'[SRV].pc = "put"]_vars

\* C12, amended: as stated while iter < E; with iter >= E the processing
\* ends with update_all, which increments global_step by one.
LateArrivalEffectWhileTraining ==
  [][/\ LateBranchEffect
     /\ SingleBufferEnds =>
          /\ general_buffer_size' = general_buffer_size + 1
          /\ global_step' = global_step
          /\ act'[SRV].pc = IF iter < num_epochs THEN "put" ELSE "ua_exec"
     /\ (act[SRV].pc = "ua_exec" /\ act'[SRV].pc # "ua_exec") =>
          global_step' = global_step + 1]_vars

\* a late reply has been counted in general_buffer_size, its group (aggregated
\* by its deadline while it was awaited) is gone and the model is on its way
\* back to the client
LateArrivalWitness ==
  /\ act[SRV].pc = "put"
  /\ general_buffer_size = 1
  /\ \E g \in DOMAIN ginfo : g \notin Groups /\ ginfo[g].by = "deadline"

\* every actor of the run has returned
AllExited ==
  /\ SimulationEnded
  /\ \A a \in DOMAIN act : act[a].pc = "done"
  /\ \A c \in Clients : cl[c].pc = "done"

\* the clients a _group_aggregation has assigned and has still to send to
RECURSIVE Queued(_)
Queued(S) ==
  IF S = {} THEN 0
  ELSE LET a == CHOOSE x \in S : TRUE
       IN Len(act[a].q) + Queued(S \ {a})

\* C13 (P5, first half), as stated: at the end of every run the number of
\* model messages sent to the clients (sentinels apart) equals the number of
\* local_steps assignments the scheduler made.
MessageAccounting == SimulationEnded => tally.models = tally.assigned

\* C13, amended: once the broadcast is over, the model messages sent and
\* those a running _group_aggregation has still to send are the N of the
\* broadcast and one for each assignment made while iter < E; so at the end
\* of a run in which every actor has returned, the messages number
\* N + assignments - assignments made with iter >= E.
MessageAccountingWhileTraining ==
  act[SRV].pc # "bcast" =>
    tally.models + Queued(DOMAIN act) = num_clients + tally.assigned - tally.unsent

\* the end of a run in which every actor has returned, with assignments that
\* were sent and assignments that were not
MessageAccountingWitness ==
  /\ AllExited
  /\ tally.unsent > 0
  /\ tally.assigned > tally.unsent

\* C14 (P5, second half): at the end of every run the replies the server has
\* received (in update() and in the drain loop) number the model messages
\* the server side has sent (broadcast and _send_model), each client having
\* replied once to each model it got and not after its sentinel.
ReplyAccounting ==
  SimulationEnded =>
    /\ tally.replies = tally.models
    /\ \A c \in Clients : cl[c].pc # "reply"

\* C15 (P4, final version counter): when the server actor has terminated,
\* ServerFedCompass::global_step is at least E.
FinalGlobalStep == act[SRV].pc = "done" => global_step >= num_epochs

\* the deadline actor d wakes and calls _group_aggregation on a group that is
\* no longer in the GOA map
FiresOnDeleted(d) ==
  /\ d \in DOMAIN act
  /\ act[d].pc = "sleep"
  /\ act'[d].pc # "sleep"
  /\ act[d].g \notin Groups

\* C16 (deadline on a deleted group): a deadline actor whose group is no
\* longer in the GOA map returns from _group_aggregation at once and changes
\* nothing: the map, every ClientInfo, global_step, general_buffer_size,
\* group_pseudo_grad, pending_clients and iter stay as they are and no
\* message is sent.
DeadlineOnDeletedGroup ==
  [][\A d \in Actors :
       FiresOnDeleted(d) =>
         /\ act'[d].pc = "done"
         /\ group_of_arrival' = group_of_arrival
         /\ client_info' = client_info
         /\ global_step' = global_step
         /\ general_buffer_size' = general_buffer_size
         /\ group_pseudo_grad' = group_pseudo_grad
         /\ pending_clients' = pending_clients
         /\ iter' = iter
         /\ mbox' = mbox
         /\ tally' = tally
         /\ fault' = fault]_vars

\* a deadline actor has returned without a pass on its group, which a late
\* arrival had deleted; another has returned after its group was aggregated
\* by the last arrival
DeadlineOnDeletedGroupWitness ==
  /\ \E d \in DOMAIN act \ {SRV} :
       act[d].pc = "done" /\ d \notin Groups /\ ginfo[d].by = "none"
  /\ \E d \in DOMAIN act \ {SRV} :
       act[d].pc = "done" /\ d \notin Groups /\ ginfo[d].by = "last"

\* C17: FedAvg round barrier.  At every moment the tokens sent form whole
\* rounds plus the first m clients of the round being sent, one token per
\* client and round; while a round is being sent every reply of the earlier
\* rounds has been received and no other, and between two rounds the replies
\* received are those of the earlier rounds plus at most one per client of
\* the round being collected.  The server reaches its end, and has then sent
\* N*E tokens and received N*E replies, E from each client.
AvgBarrier ==
  LET n == avg.client_count
      k == AvgTokens \div n
      m == AvgTokens % n
  IN /\ AvgTokens <= n * avg.epoch_count
     /\ \A c \in AvgClients(n) :
          avg.tokens[c] = k + (IF c < m THEN 1 ELSE 0)
     /\ m > 0 => AvgReplies = n * k
     /\ m = 0 /\ k > 0 =>
          /\ \A c \in AvgClients(n) : avg.replies[c] \in {k - 1, k}
          /\ AvgReplies < n * k => avg.spc \in {"sent", "get", "got"}

AvgServerEnded ==
  /\ avg.spc = "done"
  /\ AvgTokens = avg.client_count * avg.epoch_count
  /\ AvgReplies = avg.client_count * avg.epoch_count
  /\ \A c \in AvgClients(avg.client_count) : avg.replies[c] = avg.epoch_count

RoundBarrier == []AvgBarrier /\ <>[]AvgServerEnded

RoundBarrierWitness ==
  /\ avg.on
  /\ avg.client_count = NumClients
  /\ avg.epoch_count = NumEpochs
  /\ AvgServerEnded

\* C18: straggler multiplier composition.  Once a list of rules is accepted,
\* the multiplier of every client is the product of the effects of the rules
\* that name it (1.0 when none does), and parsing any permutation of the list
\* gives the same map.
MultiplierComposition ==
  Accepted =>
    /\ \A c \in FxClients :
         client_multiplier(fx.effects, c) = ProductFor(One, fx.rules, c)
    /\ \A p \in Perms(Len(fx.rules)) :
         LET res == parse_client_effects(Permuted(fx.rules, p),
                                         fx.total_clients)
         IN res.ok /\ res.effects = fx.effects

\* C19: straggler rule validation.  The parse ends the program, with no map
\* and no actor, exactly when some rule has an effect <= 0, names a client
\* outside [0, N), has a range with start > end, or names no client.
Defective(rule, n) ==
  \/ ~positive(rule.effect)
  \/ \E c \in Targeted(rule) : c < 0 \/ c >= n
  \/ "range" \in rule.keys /\ rule.range[1] > rule.range[2]
  \/ Targeted(rule) = {}

RuleValidation ==
  fx.phase # "config" =>
    /\ fx.phase = "aborted" <=>
         \E i \in 1 .. Len(fx.rules) :
           Defective(fx.rules[i], fx.total_clients)
    /\ fx.phase = "aborted" => fx.effects = EmptyMap /\ fx.actors = {}

\* C20: a rule that carries more than one of the keys client, clients and
\* range is never part of an accepted list.
ExactlyOneTarget ==
  Accepted =>
    \A i \in 1 .. Len(fx.rules) : Cardinality(fx.rules[i].keys) = 1

\* C21: FedCompass parameter guards.  With q_ratio outside (0, 1], lambda < 1,
\* max_local_steps < 1 or epochs < 0 the program stops at startup: no actor
\* is created and no scheduler is constructed.
ParameterGuards ==
  ~InRange(fx.cfg) => fx.actors = {} /\ ~fx.scheduler.built

\* C22: speed smoothing law.  Each processed return of a client takes one
\* sample, the time since the client's start_time over its assigned
\* local_steps (M for the first return); the first return sets the speed to
\* the sample and every later one to 0.1 * speed + 0.9 * sample (at the
\* clock's resolution); no other step changes a speed.
SmoothingLaw ==
  [][\A c \in Clients :
       IF tally'.returns[c] = tally.returns[c] + 1
       THEN client_info'[c].speed =
              IF tally.returns[c] = 0 THEN tally'.sample[c]
              ELSE (client_info[c].speed + 9 * tally'.sample[c]) \div 10
       ELSE client_info'[c].speed = client_info[c].speed]_vars

SmoothingLawWitness ==
  \E c \in Clients :
    /\ tally.returns[c] >= 3
    /\ client_info[c].speed # tally.sample[c]
    /\ client_info[c].speed > 0

\* C23: the deadline actor spawned for group g targets g: the group id it
\* passes to _group_aggregation is the id of the group it was created for,
\* whichever of the actor and its creator the kernel runs first.
DeadlineTargetsOwnGroup ==
  \A d \in DOMAIN act \ {SRV} : act[d].pc = "sleep" => act[d].g = d

\* C24: main loop length.  The server leaves its main loop, and when it has
\* left it update() has returned E times, iter = E and E returns have been
\* processed.
LeftMainLoop ==
  act[SRV].pc \in {"drain_get", "drain_exec", "sput", "sent_exec", "done"}

MainLoopLength ==
  /\ LeftMainLoop =>
       /\ loop_step = num_epochs
       /\ iter = num_epochs
       /\ SumOver(tally.returns, Clients) = num_epochs
  /\ SimulationEnded => LeftMainLoop

\* C25: once iter >= E no further non-sentinel model is sent to any client,
\* by the server actor or by a deadline actor, a deadline actor suspended
\* between two sends of one pass included: every put of a model after the
\* broadcast happens with iter < E.
DispatchStopsAtE ==
  [][tally'.models > tally.models /\ act[SRV].pc # "bcast"
       => iter' < num_epochs]_vars

\* C26: an aggregation pass handles each arrived client individually, so a
\* pass with k arrived clients that runs with iter >= E invokes update_all k
\* times and raises global_step by k: once no pass is inside update_all, the
\* steps of global_step made by update_all for passes number the arrived
\* clients of the passes that ran with iter >= E.
InTail == \E a \in DOMAIN act : act[a].pc = "ua_exec" /\ act[a].g # -1
AggregationTailPerClient == ~InTail => tally.tail_steps = tally.tail_clients

\* C27: for a returning client c with speed s > 0 at time now, with
\* k(g) = floor((g.expected_arrival_time - now) / s), _join_group succeeds iff
\* some group has min_local_steps <= k(g) <= max_local_steps_bound; on success
\* c is appended to the clients list of an eligible group of maximal k(g), its
\* goa is that group, its local_steps that k(g) and its start_time now; on
\* failure no group and no ClientInfo is modified.
JoinK(g, c) ==
  (group_of_arrival[g].expected_arrival_time - now) \div client_info[c].speed
JoinEligible(c) ==
  {g \in DOMAIN group_of_arrival :
     min_local_steps <= JoinK(g, c) /\ JoinK(g, c) <= max_local_steps_bound}
JoinPolicy ==
  \A c \in Clients :
    client_info[c].alloc /\ client_info[c].speed > 0 =>
      LET r == join_group(Cur, c)
          e == JoinEligible(c)
      IN /\ r.ok <=> e # {}
         /\ e = {} => r.st = Cur
         /\ e # {} =>
              \E g \in e :
                 /\ \A h \in e : JoinK(h, c) <= JoinK(g, c)
                 /\ r.st = [Cur EXCEPT
                       !.client_info[c].goa = g,
                       !.client_info[c].local_steps = JoinK(g, c),
                       !.client_info[c].start_time = now,
                       !.group_of_arrival[g].clients = Append(@, c)]
\* a client has just joined a group another client created
JoinPolicyWitness ==
  \E c \in Clients, g \in DOMAIN group_of_arrival :
     /\ client_info[c].alloc
     /\ client_info[c].goa = g
     /\ client_info[c].start_time = now
     /\ Len(group_of_arrival[g].clients) >= 2
     /\ group_of_arrival[g].clients[Len(group_of_arrival[g].clients)] = c
     /\ client_info[c].local_steps \in min_local_steps .. max_local_steps_bound

\* C28: a group leaves the GOA map only (a) at the end of an aggregation pass
\* on it that finds its clients list empty or (b) when a late arrival removes
\* the last client of its clients list; a group whose clients list is not
\* empty is never removed; and a group whose clients list an on-time last
\* arrival has emptied is removed by the pass that this arrival triggers, the
\* server's, and by no other.
Removed(g) == g \in DOMAIN group_of_arrival /\ g \notin DOMAIN group_of_arrival'
\* the server is about to process, late, the last client awaited by g
LateLast(g) ==
  /\ act[SRV].pc = "recv_exec"
  /\ group_of_arrival[g].clients = <<act[SRV].c>>
  /\ arrives_late(group_of_arrival[g])
\* actor a takes a step of an aggregation pass on g
PassOn(a, g) ==
  /\ act[a].g = g
  /\ act[a].pc \in {"sleep", "buf_exec", "ug_exec"}
  /\ act'[a] # act[a]
\* an on-time arrival has emptied the clients list of g and the server is on
\* its way to the pass of line 549
Triggered(g) ==
  /\ act[SRV].pc \in {"buf_exec", "ug_exec"}
  /\ act[SRV].g = g
  /\ group_of_arrival[g].clients = <<>>
GroupDeletion ==
  [][\A g \in DOMAIN group_of_arrival :
       /\ Removed(g) => group_of_arrival[g].clients = <<>> \/ LateLast(g)
       /\ Removed(g) /\ group_of_arrival[g].clients = <<>>
            => \E a \in DOMAIN act : PassOn(a, g)
       /\ Triggered(g) /\ Removed(g) => PassOn(SRV, g)
       /\ Triggered(g) /\ act'[SRV] # act[SRV] /\ fault' = "none"
            => \/ g \notin DOMAIN group_of_arrival'
               \/ act'[SRV].pc = "ug_exec" /\ act'[SRV].g = g]_vars

\* C29: an aggregation pass on group g increments global_step by one and
\* resets general_buffer_size to 0 if and only if g has no entry in
\* group_pseudo_grad when the pass begins; a pass on a group with a buffered
\* arrival leaves both unchanged in its update_group step.
\* actor a begins an aggregation pass on a group of the map
PassBegins(a) ==
  /\ act[a].g \in DOMAIN group_of_arrival
  /\ act'[a] # act[a]
  /\ \/ act[a].pc = "sleep"
     \/ act[a].pc = "buf_exec" /\ group_of_arrival[act[a].g].clients = <<>>
ServerState(st) == <<st.global_step, st.general_buffer_size, st.group_pseudo_grad>>
UpdateGroupIdempotent ==
  \A g \in 0 .. group_counter :
     ServerState(update_group(update_group(Cur, g), g))
       = ServerState(update_group(Cur, g))

\* C31: in every reachable state and for every group id g,
\* group_pseudo_grad[g] is at most 1, however many on-time arrivals have been
\* buffered for g, and after each completed buffer call for g it is exactly 1.
BufferCountInRange ==
  \A g \in DOMAIN group_pseudo_grad : group_pseudo_grad[g] <= 1
BufferCountClamp ==
  /\ []BufferCountInRange
  /\ [][act[SRV].pc = "buf_exec" /\ act'[SRV] # act[SRV]
         => /\ act[SRV].g \in DOMAIN group_pseudo_grad'
            /\ group_pseudo_grad'[act[SRV].g] = 1]_vars
\* two buffer calls for one group have completed and its count is 1
BufferCountClampWitness ==
  \E g \in DOMAIN group_pseudo_grad \cap DOMAIN ginfo :
     ginfo[g].buffered >= 2 /\ group_pseudo_grad[g] = 1

\* C32: at every point where an actor is suspended, pending_clients is the
\* set of the clients to which a model has been sent and whose reply the
\* server has not yet received; a client whose model a deadline actor has put
\* is in the set before any other actor can observe it, and a client is never
\* erased before it was inserted for the same model.
\* the clients that hold a model: training, or blocked in their reply put
Outstanding == {c \in Clients : cl[c].pc \in {"train", "reply"}}
\* the client whose reply the server has got and not yet erased (lines 312-314
\* and 639-643), and the client whose model the server itself has put and not
\* yet inserted (lines 405-407)
ServerReceiving == {c \in Clients : act[SRV].pc \in {"recv_exec", "drain_exec"}
                                       /\ act[SRV].c = c}
ServerSending == {c \in Clients : act[SRV].pc = "send_exec" /\ act[SRV].c = c}
PendingInRange ==
  /\ Outstanding \ ServerSending \subseteq pending_clients
  /\ pending_clients \subseteq Outstanding \cup ServerReceiving
PendingSetAccuracy ==
  /\ []PendingInRange
  /\ [][act[SRV].pc \in {"recv_exec", "drain_exec"} /\ act'[SRV] # act[SRV]
         => act[SRV].c \in pending_clients]_vars

\* C33: every client recorded on time in a group's arrived_clients is
\* reassigned by an aggregation pass on that group, and no group is deleted
\* while its arrived_clients holds a client that has not been reassigned, a
\* late arrival of the group's last straggler at the group's deadline
\* included: the step that removes a group leaves none of its arrived clients
\* still assigned to it.
\* client c has arrived on time in g and no pass has reassigned it
Unreassigned(c, g, info) ==
  /\ InSeq(c, group_of_arrival[g].arrived_clients)
  /\ info[c].goa = g
NoLostArrival ==
  [][\A g \in DOMAIN group_of_arrival :
       Removed(g) => \A c \in Clients : ~Unreassigned(c, g, client_info')]_vars

\* C34: under every interleaving of the server actor and the deadline actors
\* a client is never sent a model (sentinels apart) while it still holds an
\* unanswered one: the models put for a client never exceed by more than one
\* the replies of that client the server has processed, so that each on-time
\* arrival is sent on by at most one aggregation pass, and a model waits in a
\* client's mailbox only while that client is in its get and no other model
\* waits there.
\* the models (sentinels apart) waiting in a client's mailbox
RECURSIVE ModelsIn(_)
ModelsIn(box) ==
  IF box = <<>> THEN 0
  ELSE (IF Head(box).val < 0 THEN 0 ELSE 1) + ModelsIn(Tail(box))
SingleOutstandingModel ==
  \A c \in Clients :
    /\ tally.returns[c] <= tally.sent[c]
    /\ tally.sent[c] <= tally.returns[c] + 1
    /\ ModelsIn(mbox[c]) <= 1
    /\ ModelsIn(mbox[c]) = 1 => cl[c].pc = "wait"
\* a deadline actor's pass has sent a client its next model while the server
\* actor is itself in the middle of another client's return
SingleOutstandingModelWitness ==
  \E a \in DOMAIN act \ {SRV}, c \in Clients :
    /\ act[a].pc = "send_exec"
    /\ act[a].c = c
    /\ cl[c].pc = "train"
    /\ tally.sent[c] = tally.returns[c] + 1
    /\ tally.returns[c] >= 1
    /\ act[SRV].pc \in {"recv_exec", "buf_exec", "ug_exec", "ua_exec", "send_exec"}
    /\ act[SRV].c # c

\* C35: FedAvg client termination.  For every client count and every number
\* of rounds, once the FedAvg server has completed its rounds and left
\* server(), every client actor leaves its get/train/put loop and ends too:
\* no client stays blocked in a get for a message the server never sends.
AvgClientsExited == \A c \in DOMAIN avg.cpc : avg.cpc[c] = "done"
AvgClientTermination == (avg.on /\ avg.spc = "done") ~> AvgClientsExited

====
